---- MODULE Spec2Model ----
(***************************************************************************)
(* Day/night cellular automaton: Grid (src/src/grid.py), Entity            *)
(* (src/src/entities.py), OptimizedRules (src/src/rules.py) and Simulation *)
(* (src/src/simulation.py).                                                *)
(*                                                                         *)
(* A cell is addressed as grid.cells[<<y, x>>], the way the numpy matrix   *)
(* of the source is addressed as cells[y, x].  One invocation (recursion   *)
(* level) of OptimizedRules.move_entity is one step of the model; pc, op,  *)
(* cur, depth and frames hold the position of the running call.            *)
(***************************************************************************)
EXTENDS Integers, Sequences, FiniteSets, TLC

VARIABLES
    grid,            \* Grid: [width, height, cells]
    entities,        \* Simulation.entities: sequence of [x, y, px, py, type]
    entity_directions, \* OptimizedRules._entity_directions: type -> direction index
    day_count,       \* Simulation.day_count
    night_count,     \* Simulation.night_count
    pc,              \* position of the running call: idle, move, apply, count, raised
    op,              \* the top-level call in progress (none when idle)
    cur,             \* index into entities of the entity being moved (1-based)
    depth,           \* number of active move_entity frames of the current move
    frames,          \* collision_toggles of the pending move_entity frames, outermost first
    result,          \* the last MoveResult returned by move_entity
    all_toggles,     \* batch_move_entities.all_toggles
    err,             \* exception that left the last call, or "none"
    ret,             \* value returned by the last get_state call (-1: none)
    call,            \* the last top-level call and its arguments
    grid0,           \* grid.cells when the running top-level call was entered
    dirs0,           \* entity_directions when the running top-level call was entered
    hits,            \* collisions of the running top-level call, in order:
                     \* [entity, heading, adopted, cell, extra, random]
    moved,           \* returns of move_entity to the running top-level call, in
                     \* order: [entity, toggles, direction], direction being the
                     \* one of the entity's type when move_entity returns
    steps,           \* number of top-level calls made so far
    twin             \* a second run of the program: same calls, its own random draws

vars == <<grid, entities, entity_directions, day_count, night_count, pc, op, cur,
          depth, frames, result, all_toggles, err, ret, call, grid0, dirs0, hits,
          moved, steps, twin>>

----------------------------------------------------------------------------
(* Bounds of the model *)

\* Simulation(width, height) is built for 1..MaxW x 1..MaxH
MaxW == 4

MaxH == 4

\* number of step / step_optimized calls of one run
MaxSteps == 4

\* depth of the move_entity recursion at which the interpreter raises
\* RecursionError (the source sets no limit of its own)
RecursionLimit == 10

\* Grid(width, height) on its own is built for 1..MaxGridW x 1..MaxGridH
MaxGridW == 3

MaxGridH == 3

\* number of toggle_cell / get_state calls on a grid on its own
MaxGridCalls == 2

\* length of the list given to apply_toggles_vectorized on its own
MaxToggles == 2

\* move_entity on its own is called on grids of 1..MaxMoveW x 1..MaxMoveH
MaxMoveW == 5

MaxMoveH == 5

\* number of calls of a lookup function on its own
MaxLookupCalls == 4

\* batch_move_entities on its own is called on grids of
\* 1..MaxBatchW x 1..MaxBatchH, at most MaxBatchCalls times
MaxBatchW == 2

MaxBatchH == 3

MaxBatchCalls == 2

\* update_counts_vectorized on its own is called on grids of
\* 1..MaxCountW x 1..MaxCountH, at most MaxCountCalls times
MaxCountW == 3

MaxCountH == 2

MaxCountCalls == 1

\* Entity.move on its own is called on an entity of a grid of
\* 1..MaxEntityW x 1..MaxEntityH with offsets of -MaxDelta..MaxDelta, at most
\* MaxEntityCalls times
MaxEntityW == 3

MaxEntityH == 3

MaxDelta == 2

MaxEntityCalls == 2

----------------------------------------------------------------------------
(* rules.py: CellType, Direction *)

DAY == 0

NIGHT == 1

LEFT_UP == 0

UP == 1

RIGHT_UP == 2

LEFT == 3

RIGHT == 4

LEFT_DOWN == 5

DOWN == 6

RIGHT_DOWN == 7

CellTypes == {DAY, NIGHT}

\* OptimizedRules._direction_vectors, indexed by direction 0..7
direction_vectors ==
    [d \in 0..7 |->
        << <<-1, -1>>, <<0, -1>>, <<1, -1>>, <<-1, 0>>,
           <<1, 0>>, <<-1, 1>>, <<0, 1>>, <<1, 1>> >>[d + 1]]

\* OptimizedRules._diagonal_dirs
diagonal_dirs == <<LEFT_UP, RIGHT_UP, LEFT_DOWN, RIGHT_DOWN>>

DiagonalSet == {diagonal_dirs[i] : i \in 1..Len(diagonal_dirs)}

----------------------------------------------------------------------------
(* grid.py *)

Coords(w, h) == (0..(h - 1)) \X (0..(w - 1))

\* numpy integer indexing along an axis of length n: -n..n-1 are valid and a
\* negative index counts from the end; anything else raises IndexError
NpIndexOk(i, n) == -n <= i /\ i < n

NpIndex(i, n) == IF i < 0 THEN i + n ELSE i

\* Grid.initialize_split_grid applied to np.zeros((height, width))
initialize_split_grid(w, h) ==
    LET mid_point == w \div 2
    IN  [c \in Coords(w, h) |-> IF c[2] >= mid_point THEN 1 ELSE 0]

\* Grid.__init__
NewGrid(w, h) == [width |-> w, height |-> h, cells |-> initialize_split_grid(w, h)]

\* whether cells[y, x] is an index numpy accepts
CellIndexOk(g, x, y) == NpIndexOk(y, g.height) /\ NpIndexOk(x, g.width)

CellIndex(g, x, y) == <<NpIndex(y, g.height), NpIndex(x, g.width)>>

\* Grid.get_state (for an index numpy accepts)
get_state(g, x, y) == g.cells[CellIndex(g, x, y)]

\* Grid.toggle_cell that leaves the cell as it is
toggle_cell_unchanged(g, x, y) == g

\* toggle_cell that sets the cell to NIGHT whatever it holds
toggle_cell_sets_night(g, x, y) ==
    [g EXCEPT !.cells[CellIndex(g, x, y)] = 1]

\* Grid.toggle_cell (for an index numpy accepts)
toggle_cell(g, x, y) ==
    [g EXCEPT !.cells[CellIndex(g, x, y)] = 1 - g.cells[CellIndex(g, x, y)]]

\* Grid.reset
reset(g) == [g EXCEPT !.cells = [c \in DOMAIN g.cells |-> 0]]

----------------------------------------------------------------------------
(* entities.py and simulation.py: construction *)

\* Entity.__init__ with the default px = py = 0
NewEntity(x, y, t) == [x |-> x, y |-> y, px |-> 0, py |-> 0, type |-> t]

\* Simulation.__init__: the entity list
SimulationEntities(w, h) ==
    << NewEntity((2 * w) \div 4, h \div 4, NIGHT),
       NewEntity((3 * w) \div 4, (3 * h) \div 4, DAY) >>

\* OptimizedRules.__init__: _entity_directions
InitialDirections == [t \in CellTypes |-> LEFT_UP]

----------------------------------------------------------------------------
(* rules.py: lookup tables *)

\* _check_boundaries with the top test off by one
check_boundaries_top_off_by_one(x, y, width, height) ==
    IF y < -1 THEN "top"
    ELSE IF y >= height THEN "bottom"
    ELSE IF x < 0 THEN "left"
    ELSE IF x >= width THEN "right"
    ELSE "none"

\* _check_boundaries that tests left and right before top and bottom
check_boundaries_sides_first(x, y, width, height) ==
    IF x < 0 THEN "left"
    ELSE IF x >= width THEN "right"
    ELSE IF y < 0 THEN "top"
    ELSE IF y >= height THEN "bottom"
    ELSE "none"

\* OptimizedRules._check_boundaries ("none" stands for None)
check_boundaries(x, y, width, height) ==
    IF y < 0 THEN "top"
    ELSE IF y >= height THEN "bottom"
    ELSE IF x < 0 THEN "left"
    ELSE IF x >= width THEN "right"
    ELSE "none"

\* OptimizedRules._create_boundary_lookup: the keys of the table
BoundaryKeys ==
    { <<LEFT_UP, "top">>, <<RIGHT_UP, "top">>,
      <<LEFT_DOWN, "bottom">>, <<RIGHT_DOWN, "bottom">>,
      <<LEFT_UP, "left">>, <<LEFT_DOWN, "left">>,
      <<RIGHT_UP, "right">>, <<RIGHT_DOWN, "right">> }

\* the table with LEFT_UP for LEFT_DOWN at (RIGHT_DOWN, right)
boundary_reflections_right_slip ==
    [k \in BoundaryKeys |->
        CASE k = <<LEFT_UP, "top">> -> LEFT_DOWN
          [] k = <<RIGHT_UP, "top">> -> RIGHT_DOWN
          [] k = <<LEFT_DOWN, "bottom">> -> LEFT_UP
          [] k = <<RIGHT_DOWN, "bottom">> -> RIGHT_UP
          [] k = <<LEFT_UP, "left">> -> RIGHT_UP
          [] k = <<LEFT_DOWN, "left">> -> RIGHT_DOWN
          [] k = <<RIGHT_UP, "right">> -> LEFT_UP
          [] k = <<RIGHT_DOWN, "right">> -> LEFT_UP]

\* OptimizedRules._create_boundary_lookup: the table
boundary_reflections ==
    [k \in BoundaryKeys |->
        CASE k = <<LEFT_UP, "top">> -> LEFT_DOWN
          [] k = <<RIGHT_UP, "top">> -> RIGHT_DOWN
          [] k = <<LEFT_DOWN, "bottom">> -> LEFT_UP
          [] k = <<RIGHT_DOWN, "bottom">> -> RIGHT_UP
          [] k = <<LEFT_UP, "left">> -> RIGHT_UP
          [] k = <<LEFT_DOWN, "left">> -> RIGHT_DOWN
          [] k = <<RIGHT_UP, "right">> -> LEFT_UP
          [] k = <<RIGHT_DOWN, "right">> -> LEFT_DOWN]

\* _get_boundary_reflection that looks the direction up counted from one
get_boundary_reflection_one_based(direction, boundary) ==
    IF <<direction + 1, boundary>> \in BoundaryKeys
    THEN boundary_reflections[<<direction + 1, boundary>>]
    ELSE direction

\* OptimizedRules._get_boundary_reflection: dict.get with the direction as default
get_boundary_reflection(direction, boundary) ==
    IF <<direction, boundary>> \in BoundaryKeys
    THEN boundary_reflections[<<direction, boundary>>]
    ELSE direction

\* _get_collision_alternatives with UP for RIGHT_UP as the first alternative
\* of LEFT_UP
get_collision_alternatives_up(direction) ==
    CASE direction = LEFT_UP -> <<UP, LEFT_DOWN>>
      [] direction = RIGHT_UP -> <<LEFT_UP, RIGHT_DOWN>>
      [] direction = LEFT_DOWN -> <<LEFT_UP, RIGHT_DOWN>>
      [] direction = RIGHT_DOWN -> <<RIGHT_UP, LEFT_DOWN>>
      [] OTHER -> <<>>

\* OptimizedRules._get_collision_alternatives
get_collision_alternatives(direction) ==
    CASE direction = LEFT_UP -> <<RIGHT_UP, LEFT_DOWN>>
      [] direction = RIGHT_UP -> <<LEFT_UP, RIGHT_DOWN>>
      [] direction = LEFT_DOWN -> <<LEFT_UP, RIGHT_DOWN>>
      [] direction = RIGHT_DOWN -> <<RIGHT_UP, LEFT_DOWN>>
      [] OTHER -> <<>>

\* _get_additional_cells_for_direction with RIGHT for LEFT after RIGHT_UP
get_additional_cells_right(direction) ==
    CASE direction = RIGHT_UP -> <<RIGHT>>
      [] direction = LEFT_DOWN -> <<RIGHT>>
      [] direction = LEFT_UP -> <<RIGHT>>
      [] direction = RIGHT_DOWN -> <<UP>>
      [] OTHER -> <<>>

\* OptimizedRules._get_additional_cells_for_direction
get_additional_cells_for_direction(direction) ==
    CASE direction = RIGHT_UP -> <<LEFT>>
      [] direction = LEFT_DOWN -> <<RIGHT>>
      [] direction = LEFT_UP -> <<RIGHT>>
      [] direction = RIGHT_DOWN -> <<UP>>
      [] OTHER -> <<>>

\* _get_multiple_additional_cells with UP for LEFT after LEFT_UP
get_multiple_additional_cells_up(direction) ==
    CASE direction = LEFT_UP -> <<RIGHT, UP>>
      [] direction = RIGHT_UP -> <<LEFT, DOWN>>
      [] direction = LEFT_DOWN -> <<RIGHT, DOWN>>
      [] direction = RIGHT_DOWN -> <<UP, LEFT>>
      [] OTHER -> <<>>

\* OptimizedRules._get_multiple_additional_cells
get_multiple_additional_cells(direction) ==
    CASE direction = LEFT_UP -> <<RIGHT, LEFT>>
      [] direction = RIGHT_UP -> <<LEFT, DOWN>>
      [] direction = LEFT_DOWN -> <<RIGHT, DOWN>>
      [] direction = RIGHT_DOWN -> <<UP, LEFT>>
      [] OTHER -> <<>>

\* _validate_coordinates that accepts x = width and y = height
validate_coordinates_inclusive(x, y, g) == 0 <= x /\ x <= g.width /\ 0 <= y /\ y <= g.height

\* OptimizedRules._validate_coordinates
validate_coordinates(x, y, g) == 0 <= x /\ x < g.width /\ 0 <= y /\ y < g.height

\* OptimizedRules._get_precise_collision_toggles (and _get_collision_toggles,
\* which only forwards to it): the in-bounds cells collision point + offset
get_precise_collision_toggles(collision_x, collision_y, additional_cells, g) ==
    IF additional_cells = <<>> THEN <<>>
    ELSE IF ~validate_coordinates(collision_x, collision_y, g) THEN <<>>
    ELSE LET additional_positions ==
                 [i \in 1..Len(additional_cells) |->
                     << collision_x + direction_vectors[additional_cells[i]][1],
                        collision_y + direction_vectors[additional_cells[i]][2] >>]
             Valid(pos) == validate_coordinates(pos[1], pos[2], g)
         IN  SelectSeq(additional_positions, Valid)

----------------------------------------------------------------------------
(* rules.py: collision resolution, counting, toggle application *)

\* the test without the comparison of the cell's state with the entity's type
AlternativeClearsInBounds(entity, alt_dir, g) ==
    LET test_x == entity.x + direction_vectors[alt_dir][1]
        test_y == entity.y + direction_vectors[alt_dir][2]
    IN  /\ 0 <= test_x /\ test_x < g.width
        /\ 0 <= test_y /\ test_y < g.height

\* the test of the loop of _handle_collision for one alternative direction
AlternativeClears(entity, alt_dir, g) ==
    LET test_x == entity.x + direction_vectors[alt_dir][1]
        test_y == entity.y + direction_vectors[alt_dir][2]
    IN  /\ 0 <= test_x /\ test_x < g.width
        /\ 0 <= test_y /\ test_y < g.height
        /\ get_state(g, test_x, test_y) # entity.type

\* whether _handle_collision leaves its loop without returning, i.e. draws
\* the new direction at random
TakesRandomFallback(entity, g, dirs) ==
    LET alternatives == get_collision_alternatives(dirs[entity.type])
    IN  \A i \in 1..Len(alternatives) : ~AlternativeClears(entity, alternatives[i], g)

\* _handle_collision that tries only the first alternative before it draws
handle_collision_first_only(entity, x, y, g, dirs, random_dir) ==
    LET current_dir == dirs[entity.type]
        alternatives == get_collision_alternatives(current_dir)
    IN  IF alternatives # <<>> /\ AlternativeClears(entity, alternatives[1], g)
        THEN <<alternatives[1], get_additional_cells_for_direction(alternatives[1])>>
        ELSE <<random_dir, get_multiple_additional_cells(current_dir)>>

\* OptimizedRules._handle_collision; random_dir is the value drawn by
\* self._rng.choice(self._diagonal_dirs).  Returns <<new direction, additional cells>>
handle_collision(entity, x, y, g, dirs, random_dir) ==
    LET current_dir == dirs[entity.type]
        alternatives == get_collision_alternatives(current_dir)
        clear == {i \in 1..Len(alternatives) : AlternativeClears(entity, alternatives[i], g)}
    IN  IF clear # {}
        THEN LET first == CHOOSE i \in clear : \A j \in clear : i <= j
                 alt_dir == alternatives[first]
             IN  <<alt_dir, get_additional_cells_for_direction(alt_dir)>>
        ELSE <<random_dir, get_multiple_additional_cells(current_dir)>>

RECURSIVE SumCells(_, _)
\* np.sum(grid.cells) over the cells in S
SumCells(cells, S) ==
    IF S = {} THEN 0
    ELSE LET c == CHOOSE c \in S : TRUE
         IN  cells[c] + SumCells(cells, S \ {c})

\* update_counts_vectorized with len(grid.cells), the number of rows, for
\* grid.cells.size
update_counts_rows(g) ==
    LET night == SumCells(g.cells, DOMAIN g.cells)
        day == g.height - night
    IN  <<day, night>>

\* update_counts_vectorized that returns the two counts in the other order
update_counts_night_first(g) ==
    LET night == SumCells(g.cells, DOMAIN g.cells)
        day == Cardinality(DOMAIN g.cells) - night
    IN  <<night, day>>

\* OptimizedRules.update_counts_vectorized: <<day_count, night_count>>
update_counts_vectorized(g) ==
    LET night == SumCells(g.cells, DOMAIN g.cells)
        day == Cardinality(DOMAIN g.cells) - night
    IN  <<day, night>>

\* whether every index of the fancy-indexed assignment is one numpy accepts
TogglesIndexOk(g, toggles) ==
    \A i \in 1..Len(toggles) : CellIndexOk(g, toggles[i][1], toggles[i][2])

\* apply_toggles_vectorized that adds one to the listed cells
apply_toggles_increment(g, toggles) ==
    IF toggles = <<>> THEN g
    ELSE LET listed == {CellIndex(g, toggles[i][1], toggles[i][2]) : i \in 1..Len(toggles)}
         IN  [g EXCEPT !.cells = [c \in DOMAIN g.cells |->
                                     IF c \in listed THEN g.cells[c] + 1 ELSE g.cells[c]]]

\* OptimizedRules.apply_toggles_vectorized: the right-hand side is gathered
\* from the cells before the assignment, then scattered to the listed cells
apply_toggles_vectorized(g, toggles) ==
    IF toggles = <<>> THEN g
    ELSE LET listed == {CellIndex(g, toggles[i][1], toggles[i][2]) : i \in 1..Len(toggles)}
         IN  [g EXCEPT !.cells = [c \in DOMAIN g.cells |->
                                     IF c \in listed THEN 1 - g.cells[c] ELSE g.cells[c]]]

----------------------------------------------------------------------------
(* rules.py: one invocation of move_entity *)

\* MoveResult
MoveResult(success, new_x, new_y, additional_toggles) ==
    [success |-> success, new_x |-> new_x, new_y |-> new_y,
     additional_toggles |-> additional_toggles]

NoResult == MoveResult(FALSE, 0, 0, <<>>)

\* move_entity that stores the previous position after it has moved the entity
move_entity_prev_after(entity, g, dirs, random_dir) ==
    LET current_dir == dirs[entity.type]
        new_x == entity.x + direction_vectors[current_dir][1]
        new_y == entity.y + direction_vectors[current_dir][2]
        boundary_hit == check_boundaries(new_x, new_y, g.width, g.height)
    IN  IF boundary_hit # "none"
        THEN [branch |-> "boundary",
              dirs |-> [dirs EXCEPT ![entity.type] =
                           get_boundary_reflection(current_dir, boundary_hit)],
              grid |-> g, entity |-> entity, new_x |-> new_x, new_y |-> new_y,
              collision_toggles |-> <<>>]
        ELSE IF get_state(g, new_x, new_y) = entity.type
        THEN LET hc == handle_collision(entity, new_x, new_y, g, dirs, random_dir)
                 extra_toggles == get_precise_collision_toggles(new_x, new_y, hc[2], g)
             IN  [branch |-> "collision",
                  dirs |-> [dirs EXCEPT ![entity.type] = hc[1]],
                  grid |-> toggle_cell(g, new_x, new_y),
                  entity |-> entity, new_x |-> new_x, new_y |-> new_y,
                  collision_toggles |-> << <<new_x, new_y>> >> \o extra_toggles]
        ELSE [branch |-> "commit",
              dirs |-> dirs, grid |-> g,
              entity |-> [entity EXCEPT !.x = new_x, !.y = new_y,
                                        !.px = new_x, !.py = new_y],
              new_x |-> new_x, new_y |-> new_y,
              collision_toggles |-> <<>>]

\* OptimizedRules.move_entity, one invocation up to its recursive call or its
\* return: which branch it takes and what it has done to the direction
\* state, the grid and the entity by then.  collision_toggles is the list
\* this invocation appends to the result of its recursive call.
move_entity(entity, g, dirs, random_dir) ==
    LET current_dir == dirs[entity.type]
        new_x == entity.x + direction_vectors[current_dir][1]
        new_y == entity.y + direction_vectors[current_dir][2]
        boundary_hit == check_boundaries(new_x, new_y, g.width, g.height)
    IN  IF boundary_hit # "none"
        THEN [branch |-> "boundary",
              dirs |-> [dirs EXCEPT ![entity.type] =
                           get_boundary_reflection(current_dir, boundary_hit)],
              grid |-> g, entity |-> entity, new_x |-> new_x, new_y |-> new_y,
              collision_toggles |-> <<>>]
        ELSE IF get_state(g, new_x, new_y) = entity.type
        THEN LET hc == handle_collision(entity, new_x, new_y, g, dirs, random_dir)
                 extra_toggles == get_precise_collision_toggles(new_x, new_y, hc[2], g)
             IN  [branch |-> "collision",
                  dirs |-> [dirs EXCEPT ![entity.type] = hc[1]],
                  grid |-> toggle_cell(g, new_x, new_y),
                  entity |-> entity, new_x |-> new_x, new_y |-> new_y,
                  collision_toggles |-> << <<new_x, new_y>> >> \o extra_toggles]
        ELSE [branch |-> "commit",
              dirs |-> dirs, grid |-> g,
              entity |-> [entity EXCEPT !.px = entity.x, !.py = entity.y,
                                        !.x = new_x, !.y = new_y],
              new_x |-> new_x, new_y |-> new_y,
              collision_toggles |-> <<>>]

RECURSIVE Unwind(_)
\* the returns of the pending frames: each appends its collision_toggles to
\* the result of the frame it called, innermost first
Unwind(fs) ==
    IF fs = <<>> THEN <<>>
    ELSE fs[Len(fs)] \o Unwind(SubSeq(fs, 1, Len(fs) - 1))


----------------------------------------------------------------------------
(* The state of the program as one value, and the steps of the running call
   as functions of it *)

Prog ==
    [grid |-> grid, entities |-> entities, entity_directions |-> entity_directions,
     day_count |-> day_count, night_count |-> night_count,
     pc |-> pc, op |-> op, cur |-> cur, depth |-> depth, frames |-> frames,
     result |-> result, all_toggles |-> all_toggles, err |-> err, ret |-> ret]

Become(n) ==
    /\ grid' = n.grid
    /\ entities' = n.entities
    /\ entity_directions' = n.entity_directions
    /\ day_count' = n.day_count
    /\ night_count' = n.night_count
    /\ pc' = n.pc
    /\ op' = n.op
    /\ cur' = n.cur
    /\ depth' = n.depth
    /\ frames' = n.frames
    /\ result' = n.result
    /\ all_toggles' = n.all_toggles
    /\ err' = n.err
    /\ ret' = n.ret

\* an invocation of move_entity whose collision branch leaves the collision
\* cell as it is
LevelKeepsCell(s, random_dir) ==
    [move_entity(s.entities[s.cur], s.grid, s.entity_directions, random_dir)
        EXCEPT !.grid = s.grid]

\* the next invocation of move_entity of the running call
Level(s, random_dir) ==
    move_entity(s.entities[s.cur], s.grid, s.entity_directions, random_dir)

\* the branch it takes (the random draw does not decide the branch)
Branch(s) == Level(s, LEFT_UP).branch

\* whether it is a collision that _handle_collision resolves at random
Fallback(s) ==
    /\ s.pc = "move"
    /\ Branch(s) = "collision"
    /\ TakesRandomFallback(s.entities[s.cur], s.grid, s.entity_directions)

\* a step function is entered: its loop reaches the first move_entity call
\* (simulation.py 20-21; simulation.py 35 and rules.py 261-264)
enter_step(s, name) ==
    [s EXCEPT !.pc = "move", !.op = name, !.cur = 1, !.depth = 1]

\* a recursive call of move_entity (rules.py 125, 145): one more invocation
recurse(s) == [s EXCEPT !.depth = @ + 1]

\* the invocation of move_entity at which the stack has no room left for the
\* calls that the invocation makes itself: which one it is depends on the
\* interpreter's recursion limit and on the frames of the caller
StackRooms == {RecursionLimit - 1, RecursionLimit}

\* the stack may have no room for the calls of the running invocation
MayRaise(s) == \E room \in StackRooms : s.depth >= room

\* the stack has no room for them
MustRaise(s) == \A room \in StackRooms : s.depth >= room

\* the deepest invocation of move_entity that the stack admits finds no room
\* for the calls it makes itself (rules.py 111-118): RecursionError before it
\* has assigned anything
stack_exhausted(s) ==
    [s EXCEPT !.pc = "raised", !.err = "RecursionError"]

\* a loop over the entities that gives every move_entity call a direction
\* state of its own
next_entity_fresh_directions(s, after_loop) ==
    IF s.cur < Len(s.entities)
    THEN [s EXCEPT !.cur = @ + 1, !.depth = 1, !.pc = "move",
                   !.entity_directions = InitialDirections]
    ELSE [s EXCEPT !.cur = 0, !.depth = 0, !.pc = after_loop,
                   !.entity_directions = InitialDirections]

\* the loop over the entities goes on to the next move_entity call, or ends
next_entity(s, after_loop) ==
    IF s.cur < Len(s.entities)
    THEN [s EXCEPT !.cur = @ + 1, !.depth = 1, !.pc = "move"]
    ELSE [s EXCEPT !.cur = 0, !.depth = 0, !.pc = after_loop]

\* the top-level call returns: its locals are gone
return(s) ==
    [s EXCEPT !.pc = "idle", !.op = "none", !.cur = 0, !.depth = 0,
              !.all_toggles = <<>>]

\* boundary branch that stores the reflected direction for both types
move_boundary_all_types(s) ==
    LET d == Level(s, LEFT_UP).dirs[s.entities[s.cur].type]
    IN  recurse([s EXCEPT !.entity_directions = [t \in CellTypes |-> d]])

\* move_entity, boundary branch (rules.py 117-125): reflect and recurse
move_boundary(s) ==
    recurse([s EXCEPT !.entity_directions = Level(s, LEFT_UP).dirs])

\* collision branch that moves the entity onto the collision cell before it
\* retries
move_collision_advances(s, random_dir) ==
    LET m == Level(s, random_dir)
    IN  recurse([s EXCEPT !.entity_directions = m.dirs,
                          !.grid = m.grid,
                          !.entities[s.cur] = [m.entity EXCEPT !.x = m.new_x,
                                                               !.y = m.new_y],
                          !.frames = Append(@, m.collision_toggles)])

\* move_entity, collision branch (rules.py 127-145): new direction, toggle of
\* the collision cell in the grid, collision_toggles kept by the frame, recurse
move_collision(s, random_dir) ==
    LET m == Level(s, random_dir)
    IN  recurse([s EXCEPT !.entity_directions = m.dirs,
                          !.grid = m.grid,
                          !.frames = Append(@, m.collision_toggles)])

\* batch_move_entities that assigns each result's toggles to all_toggles
\* where the source extends all_toggles by them
move_commit_overwrites(s) ==
    LET m == Level(s, LEFT_UP)
        r == MoveResult(TRUE, m.new_x, m.new_y, Unwind(s.frames))
        t == [s EXCEPT !.entities[s.cur] = m.entity, !.result = r, !.frames = <<>>]
    IN  CASE s.op = "step" ->
                \* simulation.py 21-23
                [t EXCEPT !.pc = "apply", !.depth = 0]
          [] s.op = "move_entity" ->
                \* move_entity called on its own: the result is returned
                [t EXCEPT !.pc = "idle", !.op = "none", !.cur = 0, !.depth = 0]
          [] s.op = "step_optimized" ->
                \* rules.py 263-268, simulation.py 35-38
                next_entity([t EXCEPT !.all_toggles = r.additional_toggles],
                            "apply")
          [] s.op = "batch_move_entities" ->
                LET n == next_entity([t EXCEPT !.all_toggles = r.additional_toggles],
                                     "idle")
                IN  IF n.pc = "idle" THEN [n EXCEPT !.op = "none"] ELSE n

\* move_entity, successful move (rules.py 150-159), the returns of the pending
\* frames (rules.py 146-148) and the caller's use of the result
move_commit(s) ==
    LET m == Level(s, LEFT_UP)
        r == MoveResult(TRUE, m.new_x, m.new_y, Unwind(s.frames))
        t == [s EXCEPT !.entities[s.cur] = m.entity, !.result = r, !.frames = <<>>]
    IN  CASE s.op = "step" ->
                \* simulation.py 21-23
                [t EXCEPT !.pc = "apply", !.depth = 0]
          [] s.op = "move_entity" ->
                \* move_entity called on its own: the result is returned
                [t EXCEPT !.pc = "idle", !.op = "none", !.cur = 0, !.depth = 0]
          [] s.op = "step_optimized" ->
                \* rules.py 263-268, simulation.py 35-38
                next_entity([t EXCEPT !.all_toggles = @ \o r.additional_toggles],
                            "apply")
          [] s.op = "batch_move_entities" ->
                \* batch_move_entities called on its own (rules.py 263-268):
                \* all_toggles is returned when the loop ends
                LET n == next_entity([t EXCEPT !.all_toggles = @ \o r.additional_toggles],
                                     "idle")
                IN  IF n.pc = "idle" THEN [n EXCEPT !.op = "none"] ELSE n

\* the toggle list is applied: per entity in step (simulation.py 23-24), once
\* for the whole batch in step_optimized (simulation.py 38-39), or as the call
\* itself (rules.py 270-281)
apply_toggles(s) ==
    LET toggles == IF s.op = "step" THEN s.result.additional_toggles
                   ELSE s.all_toggles
    IN  IF ~TogglesIndexOk(s.grid, toggles)
        THEN [s EXCEPT !.pc = "raised", !.err = "IndexError"]
        ELSE LET t == [s EXCEPT !.grid = apply_toggles_vectorized(@, toggles)]
             IN  CASE s.op = "step" -> next_entity(t, "count")
                   [] s.op = "step_optimized" -> [t EXCEPT !.pc = "count"]
                   [] s.op = "apply_toggles_vectorized" -> return(t)

\* the counts are recomputed and the step returns (simulation.py 27, 42)
update_counts(s) ==
    return([s EXCEPT !.day_count = update_counts_vectorized(s.grid)[1],
                     !.night_count = update_counts_vectorized(s.grid)[2],
                     !.result = NoResult])

\* Entity.move (entities.py 13-17): the position is advanced by (dx, dy)
\* modulo the grid's size; the previous position is not assigned
move(entity, dx, dy, g) ==
    [entity EXCEPT !.x = (entity.x + dx) % g.width,
                   !.y = (entity.y + dy) % g.height]

\* a call of Entity.move on the i-th entity
entity_move_call(s, i, dx, dy) ==
    [s EXCEPT !.entities[i] = move(@, dx, dy, s.grid), !.err = "none", !.ret = -1]

\* a call of Grid.initialize_split_grid on a grid in use (grid.py 13-16): the
\* columns from width // 2 on are set to 1, the others are kept
initialize_split_grid_call(s) ==
    [s EXCEPT !.grid.cells = [c \in DOMAIN @ |->
                                 IF c[2] >= s.grid.width \div 2 THEN 1 ELSE @[c]],
              !.err = "none", !.ret = -1]

\* a call of Grid.reset
reset_call(s) == [s EXCEPT !.grid = reset(@), !.err = "none", !.ret = -1]

\* a call of Grid.toggle_cell: numpy raises IndexError for an index it does
\* not accept, and the grid is as before
toggle_cell_call(s, x, y) ==
    IF CellIndexOk(s.grid, x, y)
    THEN [s EXCEPT !.grid = toggle_cell(@, x, y), !.err = "none", !.ret = -1]
    ELSE [s EXCEPT !.err = "IndexError", !.ret = -1]

\* a call of OptimizedRules._get_boundary_reflection
get_boundary_reflection_call(s, direction, boundary) ==
    [s EXCEPT !.ret = get_boundary_reflection(direction, boundary), !.err = "none"]

\* a call of Grid.get_state
get_state_call(s, x, y) ==
    IF CellIndexOk(s.grid, x, y)
    THEN [s EXCEPT !.ret = get_state(s.grid, x, y), !.err = "none"]
    ELSE [s EXCEPT !.err = "IndexError", !.ret = -1]

RECURSIVE run_call(_, _, _)
\* the running call of step or step_optimized carried on until it returns or
\* raises, on a stack that has no room left at the invocation numbered room
\* of a move_entity call, every random fallback of it drawing random_dir
run_call(s, random_dir, room) ==
    IF s.pc = "move"
    THEN IF s.depth >= room THEN stack_exhausted(s)
         ELSE IF Branch(s) = "boundary"
              THEN run_call(move_boundary(s), random_dir, room)
         ELSE IF Branch(s) = "collision"
              THEN run_call(move_collision(s, random_dir), random_dir, room)
              ELSE run_call(move_commit(s), random_dir, room)
    ELSE IF s.pc = "apply" THEN run_call(apply_toggles(s), random_dir, room)
    ELSE IF s.pc = "count" THEN update_counts(s)
    ELSE s

\* a call of update_counts_vectorized on its own: the tuple is returned
update_counts_call(s) ==
    [s EXCEPT !.ret = update_counts_vectorized(s.grid), !.err = "none"]

----------------------------------------------------------------------------
(* Actions *)

Call(name, x, y, toggles) == [name |-> name, x |-> x, y |-> y, toggles |-> toggles]

\* Simulation.step is called
StepCall ==
    /\ pc = "idle"
    /\ op = "none"
    /\ Len(entities) > 0
    /\ steps < MaxSteps
    /\ Become(enter_step(Prog, "step"))
    /\ twin' = enter_step(twin, "step")
    /\ steps' = steps + 1
    /\ call' = Call("step", 0, 0, <<>>)
    /\ grid0' = grid.cells
    /\ dirs0' = entity_directions
    /\ UNCHANGED <<hits, moved>>

\* Simulation.step_optimized is called
StepOptimizedCall ==
    /\ pc = "idle"
    /\ op = "none"
    /\ Len(entities) > 0
    /\ steps < MaxSteps
    /\ Become(enter_step(Prog, "step_optimized"))
    /\ twin' = enter_step(twin, "step_optimized")
    /\ steps' = steps + 1
    /\ call' = Call("step_optimized", 0, 0, <<>>)
    /\ grid0' = grid.cells
    /\ dirs0' = entity_directions
    /\ UNCHANGED <<hits, moved>>

\* batch_move_entities is called on its own with the entity list
\* (rules.py 256-264): all_toggles starts empty
BatchMoveCall ==
    /\ pc = "idle"
    /\ op = "none"
    /\ Len(entities) > 0
    /\ steps < MaxBatchCalls
    /\ Become([enter_step(Prog, "batch_move_entities") EXCEPT !.all_toggles = <<>>])
    /\ twin' = [enter_step(twin, "batch_move_entities") EXCEPT !.all_toggles = <<>>]
    /\ steps' = steps + 1
    /\ call' = Call("batch_move_entities", 0, 0, <<>>)
    /\ grid0' = grid.cells
    /\ dirs0' = entity_directions
    /\ hits' = <<>>
    /\ UNCHANGED moved

\* the stack is exhausted inside the deepest invocation of move_entity
MoveStackExhausted ==
    /\ pc = "move"
    /\ MayRaise(Prog)
    /\ Become(stack_exhausted(Prog))
    /\ twin' = stack_exhausted(twin)
    /\ UNCHANGED <<call, grid0, dirs0, hits, moved, steps>>

\* move_entity hits a boundary
MoveBoundary ==
    /\ pc = "move"
    /\ ~MustRaise(Prog)
    /\ Branch(Prog) = "boundary"
    /\ Become(move_boundary(Prog))
    /\ twin' = move_boundary(twin)
    /\ UNCHANGED <<call, grid0, dirs0, hits, moved, steps>>

\* move_entity collides.  The second run draws its own random direction; the
\* two runs are compared up to the first collision that either resolves at
\* random, and start again from the first run's state after it
MoveCollision ==
    /\ pc = "move"
    /\ ~MustRaise(Prog)
    /\ Branch(Prog) = "collision"
    /\ \E random_dir \in DiagonalSet, twin_dir \in DiagonalSet :
          /\ Become(move_collision(Prog, random_dir))
          /\ twin' = IF Fallback(Prog) \/ Fallback(twin)
                     THEN move_collision(Prog, random_dir)
                     ELSE move_collision(twin, twin_dir)
    /\ LET m == Level(Prog, LEFT_UP)
       IN  hits' = Append(hits, [entity |-> cur,
                                 heading |-> entity_directions[entities[cur].type],
                                 adopted |-> entity_directions'[entities[cur].type],
                                 cell |-> <<m.new_x, m.new_y>>,
                                 extra |-> Tail(m.collision_toggles),
                                 random |-> Fallback(Prog)])
    /\ UNCHANGED <<call, grid0, dirs0, moved, steps>>

\* move_entity moves the entity and returns
MoveCommit ==
    /\ pc = "move"
    /\ ~MustRaise(Prog)
    /\ Branch(Prog) = "commit"
    /\ Become(move_commit(Prog))
    /\ twin' = move_commit(twin)
    /\ moved' = Append(moved, [entity |-> cur,
                               toggles |-> result'.additional_toggles,
                               direction |-> entity_directions[entities[cur].type]])
    /\ UNCHANGED <<call, grid0, dirs0, hits, steps>>

\* a toggle list is applied
ApplyToggles ==
    /\ pc = "apply"
    /\ Become(apply_toggles(Prog))
    /\ twin' = apply_toggles(twin)
    /\ UNCHANGED <<call, grid0, dirs0, hits, moved, steps>>

\* the counts are recomputed and the step returns
UpdateCounts ==
    /\ pc = "count"
    /\ Become(update_counts(Prog))
    /\ twin' = update_counts(twin)
    /\ grid0' = grid.cells
    /\ dirs0' = entity_directions
    /\ hits' = <<>>
    /\ moved' = <<>>
    /\ UNCHANGED <<call, steps>>

\* Grid.reset is called
ResetCall ==
    /\ pc = "idle"
    /\ Become(reset_call(Prog))
    /\ twin' = reset_call(twin)
    /\ call' = Call("reset", 0, 0, <<>>)
    /\ grid0' = grid.cells
    /\ UNCHANGED <<dirs0, hits, moved, steps>>

\* Grid.initialize_split_grid is called on the grid
InitializeSplitGridCall ==
    /\ pc = "idle"
    /\ steps < MaxGridCalls
    /\ Become(initialize_split_grid_call(Prog))
    /\ twin' = initialize_split_grid_call(twin)
    /\ call' = Call("initialize_split_grid", 0, 0, <<>>)
    /\ steps' = steps + 1
    /\ grid0' = grid.cells
    /\ UNCHANGED <<dirs0, hits, moved>>

\* Entity.move(dx, dy, grid) is called on an entity
EntityMoveCall ==
    /\ pc = "idle"
    /\ steps < MaxEntityCalls
    /\ \E i \in 1..Len(entities), dx \in (-MaxDelta)..MaxDelta, dy \in (-MaxDelta)..MaxDelta :
          /\ Become(entity_move_call(Prog, i, dx, dy))
          /\ twin' = entity_move_call(twin, i, dx, dy)
          /\ call' = Call("Entity.move", dx, dy, <<>>)
    /\ steps' = steps + 1
    /\ UNCHANGED <<grid0, dirs0, hits, moved>>

\* the arguments of a cell access: on each axis every in-bounds index, every
\* negative index numpy wraps, and one index beyond each end
CallXs == (-(grid.width + 1))..grid.width

CallYs == (-(grid.height + 1))..grid.height

\* Grid.toggle_cell(x, y) is called
ToggleCellCall ==
    /\ pc = "idle"
    /\ steps < MaxGridCalls
    /\ \E x \in CallXs, y \in CallYs :
          /\ Become(toggle_cell_call(Prog, x, y))
          /\ twin' = toggle_cell_call(twin, x, y)
          /\ call' = Call("toggle_cell", x, y, <<>>)
    /\ steps' = steps + 1
    /\ grid0' = grid.cells
    /\ UNCHANGED <<dirs0, hits, moved>>

\* Grid.get_state(x, y) is called
GetStateCall ==
    /\ pc = "idle"
    /\ steps < MaxGridCalls
    /\ \E x \in CallXs, y \in CallYs :
          /\ Become(get_state_call(Prog, x, y))
          /\ twin' = get_state_call(twin, x, y)
          /\ call' = Call("get_state", x, y, <<>>)
    /\ steps' = steps + 1
    /\ grid0' = grid.cells
    /\ UNCHANGED <<dirs0, hits, moved>>

\* the values of Direction
Directions == LEFT_UP..RIGHT_DOWN

\* the boundaries that _check_boundaries names
Boundaries == {"top", "bottom", "left", "right"}

\* _get_boundary_reflection(direction, boundary) is called
GetBoundaryReflectionCall ==
    /\ pc = "idle"
    /\ steps < MaxLookupCalls
    /\ \E direction \in Directions, boundary \in Boundaries :
          /\ Become(get_boundary_reflection_call(Prog, direction, boundary))
          /\ twin' = get_boundary_reflection_call(twin, direction, boundary)
          /\ call' = Call("get_boundary_reflection", direction, boundary, <<>>)
    /\ steps' = steps + 1
    /\ UNCHANGED <<grid0, dirs0, hits, moved>>

----------------------------------------------------------------------------
(* Specifications *)

\* the state in which no call has been made yet
Start(g, ents, name, w, h) ==
    /\ grid = g
    /\ entities = ents
    /\ entity_directions = InitialDirections
    /\ day_count = 0
    /\ night_count = 0
    /\ pc = "idle"
    /\ op = "none"
    /\ cur = 0
    /\ depth = 0
    /\ frames = <<>>
    /\ result = NoResult
    /\ all_toggles = <<>>
    /\ err = "none"
    /\ ret = -1
    /\ call = Call(name, w, h, <<>>)
    /\ grid0 = g.cells
    /\ dirs0 = InitialDirections
    /\ hits = <<>>
    /\ moved = <<>>
    /\ steps = 0

\* Simulation.__init__ (simulation.py 8-16)
Init ==
    /\ \E w \in 1..MaxW, h \in 1..MaxH :
          Start(NewGrid(w, h), SimulationEntities(w, h), "Simulation", w, h)
    /\ twin = Prog

Next ==
    \/ StepCall
    \/ StepOptimizedCall
    \/ MoveBoundary
    \/ MoveCollision
    \/ MoveCommit
    \/ MoveStackExhausted
    \/ ApplyToggles
    \/ UpdateCounts
    \/ ResetCall

\* a simulation that is stepped (and whose grid may be reset) by its driver
Spec == Init /\ [][Next]_vars

\* a grid, a rule engine and a list of two entities of any types at any
\* positions of the grid, as the callers of batch_move_entities build them
\* (grid.py 6-11, rules.py 45-71, entities.py)
InitBatch ==
    /\ \E w \in 1..MaxBatchW, h \in 1..MaxBatchH :
          \E x1, x2 \in 0..(w - 1), y1, y2 \in 0..(h - 1), t1, t2 \in CellTypes :
             Start(NewGrid(w, h), << NewEntity(x1, y1, t1), NewEntity(x2, y2, t2) >>,
                   "OptimizedRules", w, h)
    /\ twin = Prog

NextBatch ==
    \/ BatchMoveCall
    \/ MoveBoundary
    \/ MoveCollision
    \/ MoveCommit
    \/ MoveStackExhausted

\* a rule engine whose batch_move_entities is called again and again on the
\* same entity list and grid
SpecBatch == InitBatch /\ [][NextBatch]_vars

\* a grid and an entity of either type anywhere on it (grid.py 6-11,
\* entities.py 3-11)
InitEntity ==
    /\ \E w \in 1..MaxEntityW, h \in 1..MaxEntityH :
          \E x \in 0..(w - 1), y \in 0..(h - 1), t \in CellTypes :
             Start(NewGrid(w, h), << NewEntity(x, y, t) >>, "Entity", x, y)
    /\ twin = Prog

NextEntity ==
    \/ EntityMoveCall

\* an entity whose move method is called again and again
SpecEntity == InitEntity /\ [][NextEntity]_vars

\* Grid.__init__ (grid.py 6-11)
InitGrid ==
    /\ \E w \in 1..MaxGridW, h \in 1..MaxGridH :
          Start(NewGrid(w, h), <<>>, "Grid", w, h)
    /\ twin = Prog

NextGrid ==
    \/ ToggleCellCall
    \/ GetStateCall
    \/ ResetCall
    \/ InitializeSplitGridCall

\* a grid on its own, accessed through its methods
SpecGrid == InitGrid /\ [][NextGrid]_vars

\* all lists of length 0..n of cells of S
RECURSIVE Lists(_, _)
Lists(S, n) ==
    IF n = 0 THEN {<<>>}
    ELSE LET shorter == Lists(S, n - 1)
         IN  shorter \cup {Append(l, c) : l \in shorter, c \in S}

\* apply_toggles_vectorized(grid, toggles) is entered with a new grid and a
\* list of in-bounds (x, y)
InitToggles ==
    /\ \E w \in 1..MaxGridW, h \in 1..MaxGridH :
          \E toggles \in Lists((0..(w - 1)) \X (0..(h - 1)), MaxToggles) :
             /\ grid = NewGrid(w, h)
             /\ all_toggles = toggles
             /\ call = Call("apply_toggles_vectorized", 0, 0, toggles)
    /\ entities = <<>>
    /\ entity_directions = InitialDirections
    /\ day_count = 0
    /\ night_count = 0
    /\ pc = "apply"
    /\ op = "apply_toggles_vectorized"
    /\ cur = 0
    /\ depth = 0
    /\ frames = <<>>
    /\ result = NoResult
    /\ err = "none"
    /\ ret = -1
    /\ grid0 = grid.cells
    /\ dirs0 = InitialDirections
    /\ hits = <<>>
    /\ moved = <<>>
    /\ steps = 0
    /\ twin = Prog

NextToggles ==
    \/ ApplyToggles

\* one call of apply_toggles_vectorized
SpecToggles == InitToggles /\ [][NextToggles]_vars

\* the diagonal neighbours of (x, y) inside a w x h grid: the cells that
\* decide the branches of a move from (x, y)
DiagonalNeighbours(x, y, w, h) ==
    {c \in {<<x + dx, y + dy>> : dx \in {-1, 1}, dy \in {-1, 1}} :
        0 <= c[1] /\ c[1] < w /\ 0 <= c[2] /\ c[2] < h}

\* the grid after toggle_cell(x, y) for each (x, y) of the set T
ToggledGrid(g, T) ==
    [g EXCEPT !.cells = [c \in DOMAIN g.cells |->
                            IF <<c[2], c[1]>> \in T THEN 1 - g.cells[c] ELSE g.cells[c]]]

\* rules.move_entity(entity, grid) is entered: the grid is a new grid in which
\* some of the diagonal neighbours of the entity have been toggled, the entity
\* is Entity(x, y, typeE=t) inside the grid, its type heads along some
\* diagonal d and the other type, not moved so far, heads LEFT_UP
InitMove ==
    /\ \E w \in 1..MaxMoveW, h \in 1..MaxMoveH :
          \E x \in 0..(w - 1), y \in 0..(h - 1), t \in CellTypes, d \in DiagonalSet :
             \E T \in SUBSET DiagonalNeighbours(x, y, w, h) :
                /\ grid = ToggledGrid(NewGrid(w, h), T)
                /\ entities = << NewEntity(x, y, t) >>
                /\ entity_directions = [InitialDirections EXCEPT ![t] = d]
                /\ call = Call("move_entity", x, y, <<>>)
    /\ day_count = 0
    /\ night_count = 0
    /\ pc = "move"
    /\ op = "move_entity"
    /\ cur = 1
    /\ depth = 1
    /\ frames = <<>>
    /\ result = NoResult
    /\ all_toggles = <<>>
    /\ err = "none"
    /\ ret = -1
    /\ grid0 = grid.cells
    /\ dirs0 = entity_directions
    /\ hits = <<>>
    /\ moved = <<>>
    /\ steps = 0
    /\ twin = Prog

NextMove ==
    \/ MoveBoundary
    \/ MoveCollision
    \/ MoveCommit
    \/ MoveStackExhausted

\* one call of move_entity
SpecMove == InitMove /\ [][NextMove]_vars

\* rules.update_counts_vectorized(grid) is called
UpdateCountsCall ==
    /\ pc = "idle"
    /\ steps < MaxCountCalls
    /\ Become(update_counts_call(Prog))
    /\ twin' = update_counts_call(twin)
    /\ call' = Call("update_counts_vectorized", 0, 0, <<>>)
    /\ grid0' = grid.cells
    /\ steps' = steps + 1
    /\ UNCHANGED <<dirs0, hits, moved>>

\* a grid of any size and content (every content is a new grid some of whose
\* cells have been toggled) and a rule engine
InitCount ==
    /\ \E w \in 1..MaxCountW, h \in 1..MaxCountH :
          \E T \in SUBSET ((0..(w - 1)) \X (0..(h - 1))) :
             Start(ToggledGrid(NewGrid(w, h), T), <<>>, "OptimizedRules", w, h)
    /\ twin = Prog

NextCount ==
    \/ UpdateCountsCall

\* update_counts_vectorized called on a grid
SpecCount == InitCount /\ [][NextCount]_vars

\* OptimizedRules.__init__ (rules.py 45-71), beside a Grid(1, 1)
InitLookup ==
    /\ Start(NewGrid(1, 1), <<>>, "OptimizedRules", 0, 0)
    /\ twin = Prog

NextLookup ==
    \/ GetBoundaryReflectionCall

\* a rules object whose lookup functions are called
SpecLookup == InitLookup /\ [][NextLookup]_vars

----------------------------------------------------------------------------
(* Properties *)

InBounds(x, y) == 0 <= x /\ x < grid.width /\ 0 <= y /\ y < grid.height

\* the number of occurrences of e in the sequence q
Occurrences(q, e) == Cardinality({i \in 1..Len(q) : q[i] = e})

\* C1: after any number of steps of a simulation, every entity's position
\* is inside the grid: 0 <= x < width and 0 <= y < height
C1_EntitiesInBounds ==
    \A i \in 1..Len(entities) : InBounds(entities[i].x, entities[i].y)

\* C1 witness: after two or more steps an entity has moved onto an edge of
\* a grid that has an interior
C1_Witness ==
    /\ pc = "idle"
    /\ steps >= 2
    /\ grid.width >= 3
    /\ \E i \in 1..Len(entities) :
          /\ entities[i].x \in {0, grid.width - 1}
          /\ entities[i].px # entities[i].x

\* C2: in every reachable state (construction, moves, applied toggle lists,
\* resets) the two counts of update_counts_vectorized add up to width*height
C2_CountsSum ==
    update_counts_vectorized(grid)[1] + update_counts_vectorized(grid)[2]
        = grid.width * grid.height

\* C2 witness: the counts are about to be recomputed in a step that collided
\* and has applied its toggles
C2_Witness ==
    /\ pc = "count"
    /\ hits # <<>>
    /\ grid.cells # grid0

\* C3: a call of move_entity commits and returns; its chain of retries never
\* ends in the interpreter's RecursionError
C3_MoveTerminates == err # "RecursionError"

\* C4: the retries of one move are bounded: once there are more than 8 of
\* them the move has stopped with RetryLimitExceeded
C4_RetryDepthBounded ==
    (depth - 1 > 8) => (pc = "raised" /\ err = "RetryLimitExceeded")

\* C5: after apply_toggles_vectorized(grid, toggles) a cell differs from its
\* state before the call iff its coordinate occurs an odd number of times in
\* toggles
C5_ToggleParity ==
    (call.name = "apply_toggles_vectorized" /\ pc = "idle") =>
        \A x \in 0..(grid.width - 1), y \in 0..(grid.height - 1) :
            (grid.cells[<<y, x>>] # grid0[<<y, x>>])
                <=> (Occurrences(call.toggles, <<x, y>>) % 2 = 1)

\* C6: when the moves and the toggle applications of a step are done, a cell
\* that was the collision cell of exactly one collision of the step and a
\* secondary target of none holds the opposite of its state before the step
C6_CollisionCellToggledOnce ==
    (pc = "count") =>
        \A x \in 0..(grid.width - 1), y \in 0..(grid.height - 1) :
            ( /\ Cardinality({i \in 1..Len(hits) : hits[i].cell = <<x, y>>}) = 1
              /\ \A i \in 1..Len(hits) : Occurrences(hits[i].extra, <<x, y>>) = 0 )
            => grid.cells[<<y, x>>] # grid0[<<y, x>>]

\* C7: when batch_move_entities has returned (step_optimized is about to
\* apply the returned list), every cell is as it was before the call
C7_BatchMoveLeavesGrid ==
    (op = "step_optimized" /\ pc = "apply") => grid.cells = grid0

\* C8: two runs that start from the same grid, entities and directions and
\* are driven by the same calls are in the same state after every step of
\* the program as long as no collision of either is resolved at random,
\* whatever their random generators would have returned
C8_Deterministic == twin = Prog

\* C8 witness: a step in which a collision was resolved through an
\* alternative has completed its moves
C8_Witness ==
    /\ pc \in {"apply", "count"}
    /\ \E i \in 1..Len(hits) : ~hits[i].random

\* C9: toggle_cell(x, y) and get_state(x, y) with (x, y) outside
\* 0 <= x < width, 0 <= y < height fail with the out-of-bounds error
\* (numpy's IndexError) and leave every cell unchanged
C9_OutOfBoundsFails ==
    (call.name \in {"toggle_cell", "get_state"} /\ ~InBounds(call.x, call.y)) =>
        (err = "IndexError" /\ grid.cells = grid0)

\* C10: in a new Grid(width, height) the cell (width // 2, y) is DAY in every
\* row y, and after one toggle_cell of it, it is NIGHT
C10_MiddleColumnIsDay ==
    /\ (call.name = "Grid") =>
          \A y \in 0..(grid.height - 1) : grid.cells[<<y, grid.width \div 2>>] = DAY
    /\ ( /\ call.name = "toggle_cell"
         /\ steps = 1
         /\ call.x = grid.width \div 2
         /\ call.y \in 0..(grid.height - 1) ) =>
          grid.cells[<<call.y, call.x>>] = NIGHT

\* the last call was toggle_cell of an in-bounds cell
ToggledInBounds == call.name = "toggle_cell" /\ InBounds(call.x, call.y)

\* C11: toggle_cell(x, y) of an in-bounds cell flips that cell and leaves
\* every other cell as it was, and a second toggle_cell of the same cell
\* right after it gives back the grid from before the first
C11_ToggleFlipsOneCell ==
    /\ [](ToggledInBounds =>
             /\ err = "none"
             /\ grid.cells[<<call.y, call.x>>] = 1 - grid0[<<call.y, call.x>>]
             /\ \A c \in DOMAIN grid0 :
                   c # <<call.y, call.x>> => grid.cells[c] = grid0[c])
    /\ [][(ToggledInBounds /\ call' = call /\ steps' = steps + 1)
             => grid'.cells = grid0]_vars

\* C11 witness: an in-bounds cell of a grid of more than one cell has been
\* toggled twice in a row and the grid is the new grid again
C11_Witness ==
    /\ ToggledInBounds
    /\ steps = 2
    /\ grid.width * grid.height > 1
    /\ grid.cells = initialize_split_grid(grid.width, grid.height)
    /\ grid0 # grid.cells

\* C12: in every reachable state of a simulation (construction, moves with
\* their in-place collision toggle, applied toggle lists, resets) the grid
\* has a cell for every coordinate, every cell holds DAY or NIGHT, and no
\* step of the program changes the grid's width or height
C12_CellsAreDayOrNight ==
    /\ [](/\ DOMAIN grid.cells = Coords(grid.width, grid.height)
          /\ \A c \in DOMAIN grid.cells : grid.cells[c] \in CellTypes)
    /\ [][grid'.width = grid.width /\ grid'.height = grid.height]_vars

\* C12 witness: in a step the first entity has collided and its toggle list
\* has been applied, and the second entity is about to move on the changed grid
C12_Witness ==
    /\ op = "step"
    /\ pc = "move"
    /\ cur = 2
    /\ hits # <<>>
    /\ grid.cells # grid0

\* C13: before the first move both types head up-left, and in every
\* reachable state (after boundary reflections, adopted alternatives and
\* random fallbacks) the direction of each type is one of the diagonal
\* indices 0, 2, 5, 7
C13_DirectionsDiagonal ==
    /\ (steps = 0) => \A t \in {DAY, NIGHT} : entity_directions[t] = LEFT_UP
    /\ \A t \in {DAY, NIGHT} : entity_directions[t] \in {0, 2, 5, 7}

\* C13 witness: a collision of the running step was resolved at random, an
\* earlier move was reflected or adopted an alternative, and the two types
\* head in different directions
C13_Witness ==
    /\ \E i \in 1..Len(hits) : hits[i].random
    /\ steps >= 2
    /\ entity_directions[DAY] # entity_directions[NIGHT]
    /\ entity_directions[DAY] # LEFT_UP
    /\ entity_directions[NIGHT] # LEFT_UP

\* the toggle list that the running step is about to apply
PendingToggles == IF op = "step" THEN result.additional_toggles ELSE all_toggles

\* C14: a step moves every entity, then applies the toggles, then counts: a
\* returned toggle list is applied only when every entity of the step has
\* been moved (so that no move of the step sees a grid with a list of the
\* step applied), and the counts are recomputed only when the loop over the
\* entities is over
C14_StrictPhases ==
    /\ ( /\ op \in {"step", "step_optimized"}
         /\ pc = "apply"
         /\ PendingToggles # <<>> ) => cur \in {0, Len(entities)}
    /\ (pc = "count") => cur = 0

\* move_entity was called on its own for a NIGHT entity at (0, 0) heading
\* up-left on a new 5x5 grid
CornerScenario ==
    /\ call.name = "move_entity"
    /\ call.x = 0
    /\ call.y = 0
    /\ entities[1].type = NIGHT
    /\ dirs0[NIGHT] = LEFT_UP
    /\ grid.width = 5
    /\ grid.height = 5
    /\ grid0 = initialize_split_grid(5, 5)

\* the candidate cell of the next move_entity invocation lies beyond a
\* horizontal edge (top or bottom) and beyond a vertical edge (left or right)
CandidateBeyondCorner ==
    /\ pc = "move"
    /\ LET e == entities[cur]
           v == direction_vectors[entity_directions[e.type]]
       IN  /\ (e.y + v[2] < 0 \/ e.y + v[2] >= grid.height)
           /\ (e.x + v[1] < 0 \/ e.x + v[1] >= grid.width)

\* the direction after a reflection at the top or bottom edge only
TopBottomRule(d) ==
    CASE d = LEFT_UP -> LEFT_DOWN
      [] d = RIGHT_UP -> RIGHT_DOWN
      [] d = LEFT_DOWN -> LEFT_UP
      [] d = RIGHT_DOWN -> RIGHT_UP

\* C15: when the candidate lies beyond a corner the invocation (one that the
\* stack lets run) reflects by the top/bottom rule and leaves the left/right
\* rule to the retry; on a new
\* 5x5 grid a NIGHT entity at (0, 0) heading up-left is reflected to
\* down-left, then to down-right, and the move ends at (1, 1) with NIGHT
\* heading down-right, an empty toggle list and the grid unchanged
C15_CornerReflection ==
    /\ [][CandidateBeyondCorner /\ pc' # "raised" =>
             /\ entity_directions'[entities[cur].type]
                    = TopBottomRule(entity_directions[entities[cur].type])
             /\ entities' = entities
             /\ grid' = grid]_vars
    /\ [](CornerScenario =>
             /\ depth <= 3
             /\ (depth = 1) => entity_directions[NIGHT] = LEFT_UP
             /\ (depth = 2) => entity_directions[NIGHT] = LEFT_DOWN
             /\ (depth = 3) => entity_directions[NIGHT] = RIGHT_DOWN
             /\ pc \in {"move", "idle"}
             /\ (pc = "idle") =>
                   /\ result.success
                   /\ entities[1].x = 1 /\ entities[1].y = 1
                   /\ entity_directions[NIGHT] = RIGHT_DOWN
                   /\ result.additional_toggles = <<>>
                   /\ grid.cells = grid0)

\* C15 witness: the move of the 5x5 scenario has returned after two retries
C15_Witness ==
    /\ CornerScenario
    /\ pc = "idle"
    /\ result.success
    /\ entities[1].px = 0 /\ entities[1].x = 1
    /\ entity_directions[NIGHT] # dirs0[NIGHT]

\* the candidate cell of a call of move_entity on its own: the position at
\* the call plus the vector of the direction the entity's type had then
CallCandidate ==
    LET v == direction_vectors[dirs0[entities[1].type]]
    IN  <<call.x + v[1], call.y + v[2]>>

\* move_entity was called on its own with a candidate cell that is inside
\* the grid and holds the other type
FreeCandidate ==
    /\ call.name = "move_entity"
    /\ InBounds(CallCandidate[1], CallCandidate[2])
    /\ grid0[<<CallCandidate[2], CallCandidate[1]>>] # entities[1].type

\* move_entity was called on its own for a NIGHT entity at (1, 1) heading
\* up-left on a new 5x5 grid
InteriorScenario ==
    /\ call.name = "move_entity"
    /\ call.x = 1
    /\ call.y = 1
    /\ entities[1].type = NIGHT
    /\ dirs0[NIGHT] = LEFT_UP
    /\ grid.width = 5
    /\ grid.height = 5
    /\ grid0 = initialize_split_grid(5, 5)

\* C16: a move whose candidate cell is inside the grid and not of the
\* entity's type commits in its first invocation: no retry and no collision,
\* and on return the previous position is the position at the call, the
\* position is the candidate, the toggle list is empty and the grid and the
\* directions of both types are as at the call; the NIGHT entity at (1, 1)
\* of a new 5x5 grid heading up-left is at (0, 0)
C16_FreeMoveCommits ==
    /\ FreeCandidate =>
          /\ depth <= 1
          /\ hits = <<>>
          /\ pc \in {"move", "idle"}
          /\ (pc = "idle") =>
                /\ result.success
                /\ entities[1].px = call.x /\ entities[1].py = call.y
                /\ entities[1].x = CallCandidate[1] /\ entities[1].y = CallCandidate[2]
                /\ result.new_x = CallCandidate[1] /\ result.new_y = CallCandidate[2]
                /\ result.additional_toggles = <<>>
                /\ grid.cells = grid0
                /\ entity_directions = dirs0
    /\ (InteriorScenario /\ pc = "idle") =>
          (entities[1].x = 0 /\ entities[1].y = 0 /\ result.additional_toggles = <<>>)

\* C16 witness: the move of the 5x5 scenario has returned with the entity
\* at (0, 0), and its previous position is (1, 1)
C16_Witness ==
    /\ InteriorScenario
    /\ pc = "idle"
    /\ result.success
    /\ entities[1].x = 0 /\ entities[1].px = 1

\* the alternatives of a heading, in the order they are tried
AlternativesInOrder(d) ==
    CASE d = LEFT_UP -> <<RIGHT_UP, LEFT_DOWN>>
      [] d = RIGHT_UP -> <<LEFT_UP, RIGHT_DOWN>>
      [] d = LEFT_DOWN -> <<LEFT_UP, RIGHT_DOWN>>
      [] d = RIGHT_DOWN -> <<RIGHT_UP, LEFT_DOWN>>

\* the offset from the collision cell to the secondary cell of an adopted
\* alternative: left, right, right, up
SecondaryOffset(a) ==
    CASE a = RIGHT_UP -> <<-1, 0>>
      [] a = LEFT_DOWN -> <<1, 0>>
      [] a = LEFT_UP -> <<1, 0>>
      [] a = RIGHT_DOWN -> <<0, -1>>

\* at the call of move_entity on its own, the cell one step along a from the
\* entity was inside the grid and not of the entity's type
AlternativeFree(a) ==
    LET x == call.x + direction_vectors[a][1]
        y == call.y + direction_vectors[a][2]
    IN  InBounds(x, y) /\ grid0[<<y, x>>] # entities[1].type

\* C17: the first collision of a move, with heading D at the cell C one step
\* along D from the entity: if an alternative of D (in the fixed order) is
\* free, the first free one is adopted as the type's direction without a
\* random draw, and the toggles of the collision are C and then C plus the
\* offset of the adopted alternative if that cell is inside the grid; the
\* move then returns exactly these toggles with the type heading that way
C17_CollisionAlternatives ==
    (call.name = "move_entity" /\ hits # <<>>) =>
        LET hit == hits[1]
            alts == AlternativesInOrder(hit.heading)
            C == << call.x + direction_vectors[hit.heading][1],
                    call.y + direction_vectors[hit.heading][2] >>
            free == {i \in 1..Len(alts) : AlternativeFree(alts[i])}
        IN  /\ hit.cell = C
            /\ grid0[<<C[2], C[1]>>] = entities[1].type
            /\ (free # {}) =>
                  LET a == alts[CHOOSE i \in free : \A j \in free : i <= j]
                      S == <<C[1] + SecondaryOffset(a)[1], C[2] + SecondaryOffset(a)[2]>>
                      toggles == IF InBounds(S[1], S[2]) THEN <<C, S>> ELSE <<C>>
                  IN  /\ ~hit.random
                      /\ hit.adopted = a
                      /\ <<hit.cell>> \o hit.extra = toggles
                      /\ Len(hits) = 1
                      /\ (pc = "idle") =>
                            /\ entity_directions[entities[1].type] = a
                            /\ result.additional_toggles = toggles

\* C17 witness: a move has returned after one collision in which the second
\* alternative was adopted and whose secondary cell is inside the grid
C17_Witness ==
    /\ call.name = "move_entity"
    /\ pc = "idle"
    /\ Len(hits) = 1
    /\ ~hits[1].random
    /\ hits[1].adopted = AlternativesInOrder(hits[1].heading)[2]
    /\ Len(result.additional_toggles) = 2

RECURSIVE ReturnedToggles(_)
\* the toggle lists returned to the running call, one after the other
ReturnedToggles(m) ==
    IF m = <<>> THEN <<>>
    ELSE ReturnedToggles(SubSeq(m, 1, Len(m) - 1)) \o m[Len(m)].toggles

\* C18: while batch_move_entities runs, move_entity has returned once for
\* each entity before the current one, in list order; when it has returned
\* (step_optimized is about to apply the list) move_entity has returned
\* exactly once for every entity, in list order; and all_toggles is at both
\* points the returned toggle lists one after the other, each as returned
C18_BatchConcatenates ==
    (op = "step_optimized" /\ pc \in {"move", "apply"}) =>
        /\ Len(moved) = (IF pc = "apply" THEN Len(entities) ELSE cur - 1)
        /\ \A i \in 1..Len(moved) : moved[i].entity = i
        /\ all_toggles = ReturnedToggles(moved)

\* C18 witness: batch_move_entities has returned and both entities had
\* collided, each returning a list of its own
C18_Witness ==
    /\ op = "step_optimized"
    /\ pc = "apply"
    /\ Len(moved) = 2
    /\ moved[1].toggles # <<>>
    /\ moved[2].toggles # <<>>
    /\ moved[1].toggles # moved[2].toggles

\* C19: at every quiescent point of a simulation, right after construction
\* and after every step, day_count is the number of DAY cells of the grid and
\* night_count the number of NIGHT cells, and they add up to width * height
C19_CountsCurrent ==
    (pc = "idle" /\ call.name \in {"Simulation", "step", "step_optimized"}) =>
        /\ day_count = Cardinality({c \in DOMAIN grid.cells : grid.cells[c] = DAY})
        /\ night_count = Cardinality({c \in DOMAIN grid.cells : grid.cells[c] = NIGHT})
        /\ day_count + night_count = grid.width * grid.height

\* the reflection table: top, bottom, left, right, two entries each
ReflectionTable(direction, boundary) ==
    CASE direction = LEFT_UP /\ boundary = "top" -> LEFT_DOWN
      [] direction = RIGHT_UP /\ boundary = "top" -> RIGHT_DOWN
      [] direction = LEFT_DOWN /\ boundary = "bottom" -> LEFT_UP
      [] direction = RIGHT_DOWN /\ boundary = "bottom" -> RIGHT_UP
      [] direction = LEFT_UP /\ boundary = "left" -> RIGHT_UP
      [] direction = LEFT_DOWN /\ boundary = "left" -> RIGHT_DOWN
      [] direction = RIGHT_UP /\ boundary = "right" -> LEFT_UP
      [] direction = RIGHT_DOWN /\ boundary = "right" -> LEFT_DOWN
      [] OTHER -> direction

\* C20: _get_boundary_reflection(direction, boundary) returns the entry of
\* the reflection table for the eight listed pairs and the direction itself
\* for every other pair of a direction and a boundary
C20_ReflectionTable ==
    (call.name = "get_boundary_reflection") =>
        /\ err = "none"
        /\ ret = ReflectionTable(call.x, call.y)

\* C20 witness: a second or later call, for (RIGHT_DOWN, right), has
\* returned LEFT_DOWN
C20_Witness ==
    /\ call.name = "get_boundary_reflection"
    /\ steps >= 2
    /\ call.x = RIGHT_DOWN
    /\ call.y = "right"
    /\ ret = LEFT_DOWN

\* the candidate cell of the next move_entity invocation
Candidate ==
    LET e == entities[cur]
        v == direction_vectors[entity_directions[e.type]]
    IN  <<e.x + v[1], e.y + v[2]>>

\* the next move_entity invocation is a boundary sub-step
CandidateOutside == pc = "move" /\ ~InBounds(Candidate[1], Candidate[2])

\* the edge a candidate outside the grid is found beyond: top and bottom
\* are looked at before left and right
EdgeFound ==
    IF Candidate[2] < 0 THEN "top"
    ELSE IF Candidate[2] >= grid.height THEN "bottom"
    ELSE IF Candidate[1] < 0 THEN "left"
    ELSE "right"

\* the pairs listed in the reflection table
ListedPairs ==
    { <<LEFT_UP, "top">>, <<RIGHT_UP, "top">>, <<LEFT_DOWN, "bottom">>,
      <<RIGHT_DOWN, "bottom">>, <<LEFT_UP, "left">>, <<LEFT_DOWN, "left">>,
      <<RIGHT_UP, "right">>, <<RIGHT_DOWN, "right">> }

\* C21: in every boundary sub-step of a move from an in-bounds position with
\* a diagonal heading, the pair of the heading and the edge found is listed
\* in the reflection table, and the sub-step (of an invocation that the stack
\* lets run) changes the type's direction
C21_BoundaryPairListed ==
    /\ [](CandidateOutside =>
             <<entity_directions[entities[cur].type], EdgeFound>> \in ListedPairs)
    /\ [][CandidateOutside /\ pc' # "raised" =>
             entity_directions'[entities[cur].type]
                # entity_directions[entities[cur].type]]_vars

\* C21 witness: a move on a grid of two or more columns and rows is in its
\* third invocation after two boundary sub-steps
C21_Witness ==
    /\ call.name = "move_entity"
    /\ pc = "move"
    /\ depth = 3
    /\ hits = <<>>
    /\ grid.width >= 2 /\ grid.height >= 2
    /\ entity_directions[entities[1].type] # dirs0[entities[1].type]

\* C22: a boundary sub-step leaves every entity's position and previous
\* position, every grid cell, the direction of the other type and the
\* toggles accumulated so far (by the pending invocations, by the batch and
\* in the last result) as they were
C22_BoundaryFrame ==
    [][CandidateOutside =>
          /\ entities' = entities
          /\ grid' = grid
          /\ \A t \in {DAY, NIGHT} :
                t # entities[cur].type => entity_directions'[t] = entity_directions[t]
          /\ frames' = frames
          /\ all_toggles' = all_toggles
          /\ result' = result]_vars

\* C22 witness: in a step, the direction adopted in the last collision of
\* the entity being moved has since been reflected at a boundary, with the
\* toggles of the collision pending
C22_Witness ==
    /\ op \in {"step", "step_optimized"}
    /\ pc = "move"
    /\ hits # <<>>
    /\ frames # <<>>
    /\ hits[Len(hits)].entity = cur
    /\ hits[Len(hits)].adopted # entity_directions[entities[cur].type]
    /\ entity_directions[DAY] # entity_directions[NIGHT]

\* the offsets from the collision cell to the two secondary cells of a
\* collision with heading d that no alternative resolves
FallbackOffsets(d) ==
    CASE d = LEFT_UP -> << <<1, 0>>, <<-1, 0>> >>
      [] d = RIGHT_UP -> << <<-1, 0>>, <<0, 1>> >>
      [] d = LEFT_DOWN -> << <<1, 0>>, <<0, 1>> >>
      [] d = RIGHT_DOWN -> << <<0, -1>>, <<-1, 0>> >>

\* whether the cell p is inside the grid
CellInside(p) == InBounds(p[1], p[2])

\* at the call of move_entity on its own, neither alternative of heading d
\* was free
NoAlternativeFree(d) ==
    \A i \in 1..Len(AlternativesInOrder(d)) : ~AlternativeFree(AlternativesInOrder(d)[i])

\* C23: when the first collision of a move, with heading D at cell C, finds
\* neither alternative free, the new direction is drawn among the four
\* diagonals and the secondary targets are the two cells C plus the offsets
\* fixed by D, in that order, those inside the grid being listed; and where
\* such a collision is about to happen, the draw is among the four diagonals
\* and each of them, D included, is the direction the collision leaves when
\* it is the one drawn
C23_RandomFallback ==
    /\ (call.name = "move_entity" /\ hits # <<>> /\ NoAlternativeFree(hits[1].heading)) =>
          LET hit == hits[1]
              o == FallbackOffsets(hit.heading)
              targets == [i \in 1..2 |-> <<hit.cell[1] + o[i][1], hit.cell[2] + o[i][2]>>]
          IN  /\ hit.random
              /\ hit.adopted \in {LEFT_UP, RIGHT_UP, LEFT_DOWN, RIGHT_DOWN}
              /\ hit.extra = SelectSeq(targets, CellInside)
    /\ ( /\ op = "move_entity"
         /\ pc = "move"
         /\ hits = <<>>
         /\ InBounds(Candidate[1], Candidate[2])
         /\ grid.cells[<<Candidate[2], Candidate[1]>>] = entities[1].type
         /\ NoAlternativeFree(entity_directions[entities[1].type]) ) =>
          /\ DiagonalSet = {LEFT_UP, RIGHT_UP, LEFT_DOWN, RIGHT_DOWN}
          /\ \A d \in DiagonalSet :
                move_collision(Prog, d).entity_directions[entities[1].type] = d

\* C23 witness: the first collision of a move was resolved at random, the
\* draw gave the heading that had just collided, and both secondary cells
\* are inside the grid
C23_Witness ==
    /\ call.name = "move_entity"
    /\ hits # <<>>
    /\ hits[1].random
    /\ hits[1].adopted = hits[1].heading
    /\ Len(hits[1].extra) = 2

\* the offsets of the four orthogonal neighbours
OrthogonalOffsets == {<<-1, 0>>, <<1, 0>>, <<0, -1>>, <<0, 1>>}

\* every cell of the toggle list q is inside the grid
AllInside(q) == \A i \in 1..Len(q) : CellInside(q[i])

\* C24: every secondary target listed by a collision is the collision cell
\* plus an orthogonal offset; every coordinate of every toggle list kept by a
\* pending invocation, returned by move_entity or gathered by
\* batch_move_entities is inside the grid; and no IndexError is raised
C24_TogglesInBounds ==
    /\ \A i \in 1..Len(hits) :
          /\ CellInside(hits[i].cell)
          /\ \A j \in 1..Len(hits[i].extra) :
                <<hits[i].extra[j][1] - hits[i].cell[1],
                  hits[i].extra[j][2] - hits[i].cell[2]>> \in OrthogonalOffsets
    /\ \A i \in 1..Len(frames) : AllInside(frames[i])
    /\ AllInside(result.additional_toggles)
    /\ \A i \in 1..Len(moved) : AllInside(moved[i].toggles)
    /\ AllInside(all_toggles)
    /\ err # "IndexError"

\* C24 witness: a step is about to apply the toggles of a collision in
\* which an alternative was adopted and whose secondary target, outside the
\* grid, was dropped
C24_Witness ==
    /\ pc = "apply"
    /\ \E i \in 1..Len(hits) : ~hits[i].random /\ hits[i].extra = <<>>
    /\ PendingToggles # <<>>

\* the last sub-step of the move in progress was a collision in which an
\* alternative was adopted (no sub-step of the move has followed it if
\* the collision is followed by the commit)
AdoptedLast ==
    /\ pc = "move"
    /\ hits # <<>>
    /\ hits[Len(hits)].entity = cur
    /\ ~hits[Len(hits)].random

\* C25: after a collision resolved by adopting an alternative, the next
\* sub-step of the move neither hits a boundary nor collides: it commits the
\* entity to its position plus the vector of the adopted alternative
C25_AdoptedAlternativeCommits ==
    /\ [](AdoptedLast =>
             /\ entity_directions[entities[cur].type] = hits[Len(hits)].adopted
             /\ InBounds(Candidate[1], Candidate[2])
             /\ grid.cells[<<Candidate[2], Candidate[1]>>] # entities[cur].type)
    /\ [][AdoptedLast =>
             LET v == direction_vectors[hits[Len(hits)].adopted]
             IN  /\ hits' = hits
                 /\ depth' < depth
                 /\ result'.success
                 /\ entities'[cur].x = entities[cur].x + v[1]
                 /\ entities'[cur].y = entities[cur].y + v[2]]_vars

\* C25 witness: a move that was reflected at a boundary and then collided
\* has adopted an alternative and returned with the entity one step along it
C25_Witness ==
    /\ call.name = "move_entity"
    /\ pc = "idle"
    /\ Len(hits) = 1
    /\ ~hits[1].random
    /\ hits[1].heading # dirs0[entities[1].type]
    /\ entities[1].x = call.x + direction_vectors[hits[1].adopted][1]
    /\ entities[1].y = call.y + direction_vectors[hits[1].adopted][2]

RECURSIVE CollisionToggles(_)
\* the collision_toggles of the collisions h of a call, those of the last
\* collision first (each frame extends the list it received with its own)
CollisionToggles(h) ==
    IF h = <<>> THEN <<>>
    ELSE <<h[Len(h)].cell>> \o h[Len(h)].extra
            \o CollisionToggles(SubSeq(h, 1, Len(h) - 1))

\* C26: until move_entity commits, the entity keeps the position (and the
\* previous position) it had when the call was made, so every retry starts
\* from it; when the call has returned, the entity is at the call's position
\* plus the vector of its type's direction at the return, one cell away in x
\* and in y, its previous position is the call's position, and the result has
\* success = true, the entity's new position and the toggles of all the
\* collisions of the call
C26_MoveFromOriginalPosition ==
    call.name = "move_entity" =>
        LET e == entities[1]
            v == direction_vectors[entity_directions[e.type]]
        IN  /\ pc # "idle" =>
                  /\ e = NewEntity(call.x, call.y, e.type)
                  /\ result = NoResult
            /\ pc = "idle" =>
                  /\ e.x = call.x + v[1]
                  /\ e.y = call.y + v[2]
                  /\ e.x - call.x \in {-1, 1}
                  /\ e.y - call.y \in {-1, 1}
                  /\ e.px = call.x
                  /\ e.py = call.y
                  /\ result.success
                  /\ result.new_x = e.x
                  /\ result.new_y = e.y
                  /\ result.additional_toggles = CollisionToggles(hits)

\* C26 witness: a call that collided twice has returned, from a position
\* other than (0, 0), with toggles of both collisions in its result
C26_Witness ==
    /\ call.name = "move_entity"
    /\ pc = "idle"
    /\ Len(hits) = 2
    /\ call.x > 0
    /\ call.y > 0
    /\ Len(result.additional_toggles) > Len(hits[2].extra) + 1
    /\ entities[1].px = call.x

\* the returns of move_entity so far for entities of type t, as indices of
\* moved (under SpecBatch moved keeps the returns of the earlier calls)
MovesOfType(t) == {i \in 1..Len(moved) : entities[moved[i].entity].type = t}

\* the largest element of a non-empty set of numbers
Latest(S) == CHOOSE i \in S : \A j \in S : j <= i

\* C27: the direction state has one slot per type: no sub-step of a move of
\* an entity changes the slot of the other type, nothing but a move changes
\* a slot, and every move_entity call starts with the direction that the
\* latest move of an entity of the same type, the same or another one, has
\* left behind
C27_DirectionSharedPerType ==
    /\ [](pc = "move" /\ depth = 1 /\ MovesOfType(entities[cur].type) # {} =>
             entity_directions[entities[cur].type]
                 = moved[Latest(MovesOfType(entities[cur].type))].direction)
    /\ [][/\ pc = "move" =>
                \A t \in CellTypes \ {entities[cur].type} :
                    entity_directions'[t] = entity_directions[t]
           /\ pc # "move" => entity_directions' = entity_directions]_vars

\* C27 witness: in the second call of batch_move_entities on two entities of
\* one type, the second entity starts its move with a direction that the
\* first has just left behind and that differs from the direction at the
\* call and from the other type's
C27_Witness ==
    /\ call.name = "batch_move_entities"
    /\ steps = 2
    /\ pc = "move"
    /\ depth = 1
    /\ cur = 2
    /\ entities[1].type = entities[2].type
    /\ Len(moved) = 3
    /\ entity_directions[entities[2].type] = moved[3].direction
    /\ entity_directions[entities[2].type] # dirs0[entities[2].type]
    /\ entity_directions[DAY] # entity_directions[NIGHT]

\* the number of cells of the array c that hold the state t
CellsInState(c, t) == Cardinality({i \in DOMAIN c : c[i] = t})

\* C28: on every grid update_counts_vectorized returns the number of DAY
\* cells as day count and the number of NIGHT cells as night count, and the
\* grid is after the call as it was before
C28_CountsExact ==
    call.name = "update_counts_vectorized" =>
        /\ ret = <<CellsInState(grid0, DAY), CellsInState(grid0, NIGHT)>>
        /\ grid.cells = grid0
        /\ DOMAIN grid.cells = (0..(grid.height - 1)) \X (0..(grid.width - 1))

\* C28 witness: the counts of a grid that is not a newly split one and that
\* has more DAY cells than NIGHT cells, at least one of each, were returned
C28_Witness ==
    /\ call.name = "update_counts_vectorized"
    /\ grid.cells # NewGrid(grid.width, grid.height).cells
    /\ ret[2] > 0
    /\ ret[1] > ret[2]

\* what a step leaves behind: grid cells, entities, direction state, counts
\* and whether it raised
Outcome(s) ==
    [cells |-> s.grid.cells, entities |-> s.entities,
     entity_directions |-> s.entity_directions,
     day_count |-> s.day_count, night_count |-> s.night_count, err |-> s.err]

\* C29: from every state in which the simulation can be stepped, step and
\* step_optimized with the same random-fallback choices, when they return
\* (whatever room the stack of each leaves), leave the same grid cells,
\* entities, direction state and counts
C29_StepsEquivalent ==
    pc = "idle" /\ Len(entities) > 0 =>
        \A d \in DiagonalSet : \A room_step, room_optimized \in StackRooms :
            LET a == run_call(enter_step(Prog, "step"), d, room_step)
                b == run_call(enter_step(Prog, "step_optimized"), d, room_optimized)
            IN  a.err = "none" /\ b.err = "none" => Outcome(a) = Outcome(b)

\* C30: on a grid with at least two columns and two rows, whatever the
\* grid's content, the entity's position and heading and the random
\* fallbacks, a move_entity call collides at most 3 times and retries
\* (boundary reflections and collisions together) at most 5 times, below a
\* retry bound of 8, and ends by committing
C30_RetriesBounded ==
    call.name = "move_entity" /\ grid.width >= 2 /\ grid.height >= 2 =>
        /\ Len(hits) <= 3
        /\ pc = "move" => depth - 1 <= 5 /\ depth - 1 < 8
        /\ pc \in {"move", "idle"}
        /\ err = "none"

\* C30 witness: a move is about to commit after 5 retries, one of them a
\* collision and four of them boundary reflections
C30_Witness ==
    /\ call.name = "move_entity"
    /\ grid.width >= 2
    /\ grid.height >= 2
    /\ pc = "move"
    /\ Branch(Prog) = "commit"
    /\ Len(hits) = 1
    /\ depth - 1 = 5

\* the state of the cell at <<x, y>> is the one opposite to the type t
OppositeAt(xy, t) == grid.cells[<<xy[2], xy[1]>>] = 1 - t

\* C31: when move_entity has returned, and no returned toggle has been
\* applied, the cell at the entity's new position and every collision cell
\* of the call hold the state opposite to the entity's type
C31_OppositeAtReturn ==
    call.name = "move_entity" /\ pc = "idle" =>
        /\ InBounds(entities[1].x, entities[1].y)
        /\ OppositeAt(<<entities[1].x, entities[1].y>>, entities[1].type)
        /\ \A i \in 1..Len(hits) :
              /\ CellInside(hits[i].cell)
              /\ OppositeAt(hits[i].cell, entities[1].type)

\* C31 witness: a call that collided twice, at two cells, has returned with
\* the entity on a third cell
C31_Witness ==
    /\ call.name = "move_entity"
    /\ pc = "idle"
    /\ Len(hits) = 2
    /\ hits[1].cell # hits[2].cell
    /\ <<entities[1].x, entities[1].y>> \notin {hits[1].cell, hits[2].cell}
    /\ grid.cells # grid0
    /\ result.additional_toggles # <<>>

====
